---- MODULE Spec2Model ----
(***************************************************************************)
(* PS/2 scan code set 1 decoder: the Reader of src/reader.rs, its two     *)
(* code tables and the Key value type of src/scan_code_set.rs.            *)
(*                                                                         *)
(* A Reader is a record [mode, history_scan_codes]; the history buffer is *)
(* a function over 0..5, as the array [u8; 6] of the source.  An          *)
(* Option<Key> is a sequence of length 0 (None) or 1 (Some(key)).  A      *)
(* Result<Option<Key>, &str> is a record [ok, val, err].                  *)
(***************************************************************************)
EXTENDS Integers, Sequences, FiniteSets, TLC

\* u8: the type of a scan code and of a history slot.
Byte == 0 .. 255

\* ReaderMode (reader.rs:4-8)
ReaderMode == {"Set1", "Set2", "Set3"}

\* KeyState (scan_code_set.rs:142-145)
Pressed == "Pressed"
Released == "Released"
KeyState == {Pressed, Released}

\* Key::new (scan_code_set.rs:155-161)
Key_new(scan_type, state) ==
    [scan_type |-> scan_type, state |-> state, keypad |-> FALSE]

\* Key::new_keypad (scan_code_set.rs:163-169)
Key_new_keypad(scan_type, state) ==
    [scan_type |-> scan_type, state |-> state, keypad |-> TRUE]

\* A plausible slip: the state is returned as it came.
inverted_state_same(key) ==
    key

\* Key::inverted_state (scan_code_set.rs:187-195)
inverted_state(key) ==
    IF key.state = Pressed
    THEN [key EXCEPT !.state = Released]
    ELSE [key EXCEPT !.state = Pressed]

\* Option<Key>
None == << >>
Some(key) == << key >>

\* Result<Option<Key>, &'static str>
Ok(v) == [ok |-> TRUE, val |-> v, err |-> ""]
Err(msg) == [ok |-> FALSE, val |-> None, err |-> msg]

\* the macros of map_simple_scan_code_s1 and map_media_scan_code_s1
create_pressed_key(scan_type) == Some(Key_new(scan_type, Pressed))
create_pressed_keypad_key(scan_type) == Some(Key_new_keypad(scan_type, Pressed))

\* The press arms 0x01 ..= 0x58 of map_simple_scan_code_s1 (reader.rs:216-312),
\* code :> key.
map_simple_scan_code_s1_pressed_arms ==
       \h01 :> create_pressed_key("Escape")
    @@ \h02 :> create_pressed_key("Num1")
    @@ \h03 :> create_pressed_key("Num2")
    @@ \h04 :> create_pressed_key("Num3")
    @@ \h05 :> create_pressed_key("Num4")
    @@ \h06 :> create_pressed_key("Num5")
    @@ \h07 :> create_pressed_key("Num6")
    @@ \h08 :> create_pressed_key("Num7")
    @@ \h09 :> create_pressed_key("Num8")
    @@ \h0A :> create_pressed_key("Num9")
    @@ \h0B :> create_pressed_key("Num0")
    @@ \h0C :> create_pressed_key("SymbolMinus")
    @@ \h0D :> create_pressed_key("SymbolEquals")
    @@ \h0E :> create_pressed_key("Backspace")
    @@ \h0F :> create_pressed_key("Tab")
    @@ \h10 :> create_pressed_key("CharQ")
    @@ \h11 :> create_pressed_key("CharW")
    @@ \h12 :> create_pressed_key("CharE")
    @@ \h13 :> create_pressed_key("CharR")
    @@ \h14 :> create_pressed_key("CharT")
    @@ \h15 :> create_pressed_key("CharY")
    @@ \h16 :> create_pressed_key("CharU")
    @@ \h17 :> create_pressed_key("CharI")
    @@ \h18 :> create_pressed_key("CharO")
    @@ \h19 :> create_pressed_key("CharP")
    @@ \h1A :> create_pressed_key("SymbolOpenSquareBracket")
    @@ \h1B :> create_pressed_key("SymbolOpenSquareBracket")
    @@ \h1C :> create_pressed_key("Enter")
    @@ \h1D :> create_pressed_key("LeftCtrl")
    @@ \h1E :> create_pressed_key("CharA")
    @@ \h1F :> create_pressed_key("CharS")
    @@ \h20 :> create_pressed_key("CharD")
    @@ \h21 :> create_pressed_key("CharF")
    @@ \h22 :> create_pressed_key("CharG")
    @@ \h23 :> create_pressed_key("CharH")
    @@ \h24 :> create_pressed_key("CharJ")
    @@ \h25 :> create_pressed_key("CharK")
    @@ \h26 :> create_pressed_key("CharL")
    @@ \h27 :> create_pressed_key("SymbolSemicolon")
    @@ \h28 :> create_pressed_key("SymbolSingleQuote")
    @@ \h29 :> create_pressed_key("SymbolBacktick")
    @@ \h2A :> create_pressed_key("LeftShift")
    @@ \h2B :> create_pressed_key("SymbolBackslash")
    @@ \h2C :> create_pressed_key("CharZ")
    @@ \h2D :> create_pressed_key("CharX")
    @@ \h2E :> create_pressed_key("CharC")
    @@ \h2F :> create_pressed_key("CharV")
    @@ \h30 :> create_pressed_key("CharB")
    @@ \h31 :> create_pressed_key("CharN")
    @@ \h32 :> create_pressed_key("CharM")
    @@ \h33 :> create_pressed_key("SymbolComma")
    @@ \h34 :> create_pressed_key("SymbolPeriod")
    @@ \h35 :> create_pressed_key("SymbolForwardSlash")
    @@ \h36 :> create_pressed_key("RightShift")
    @@ \h37 :> create_pressed_keypad_key("SymbolAsterisk")
    @@ \h38 :> create_pressed_key("LeftAlt")
    @@ \h39 :> create_pressed_key("Space")
    @@ \h3A :> create_pressed_key("CapsLock")
    @@ \h3B :> create_pressed_key("F1")
    @@ \h3C :> create_pressed_key("F2")
    @@ \h3D :> create_pressed_key("F3")
    @@ \h3E :> create_pressed_key("F4")
    @@ \h3F :> create_pressed_key("F5")
    @@ \h40 :> create_pressed_key("F6")
    @@ \h41 :> create_pressed_key("F7")
    @@ \h42 :> create_pressed_key("F8")
    @@ \h43 :> create_pressed_key("F9")
    @@ \h44 :> create_pressed_key("F10")
    @@ \h45 :> create_pressed_key("NumLock")
    @@ \h46 :> create_pressed_key("ScrollLock")
    @@ \h47 :> create_pressed_keypad_key("Num7")
    @@ \h48 :> create_pressed_keypad_key("Num8")
    @@ \h49 :> create_pressed_keypad_key("Num9")
    @@ \h4A :> create_pressed_keypad_key("SymbolMinus")
    @@ \h4B :> create_pressed_keypad_key("Num4")
    @@ \h4C :> create_pressed_keypad_key("Num5")
    @@ \h4D :> create_pressed_keypad_key("Num6")
    @@ \h4E :> create_pressed_keypad_key("SymbolPlus")
    @@ \h4F :> create_pressed_keypad_key("Num1")
    @@ \h50 :> create_pressed_keypad_key("Num2")
    @@ \h51 :> create_pressed_keypad_key("Num3")
    @@ \h52 :> create_pressed_keypad_key("Num0")
    @@ \h53 :> create_pressed_keypad_key("SymbolPeriod")
    @@ \h57 :> create_pressed_key("F11")
    @@ \h58 :> create_pressed_key("F12")

\* The key of the press arm that matches code, None when none does.
map_simple_scan_code_s1_pressed(code) ==
    IF code \in DOMAIN map_simple_scan_code_s1_pressed_arms THEN map_simple_scan_code_s1_pressed_arms[code] ELSE None

\* A plausible slip: the release range forgets to invert the state.
map_simple_scan_code_s1_no_invert(code) ==
    IF map_simple_scan_code_s1_pressed(code) # None
    THEN map_simple_scan_code_s1_pressed(code)
    ELSE IF code >= \h81 /\ code <= \hD3
    THEN map_simple_scan_code_s1_pressed(code - \h80)
    ELSE IF code = \hD7 THEN Some(Key_new("F11", Released))
    ELSE IF code = \hD8 THEN Some(Key_new("F12", Released))
    ELSE None

\* Reader::map_simple_scan_code_s1: the press arms, then the release range
\* 0x81 ..= 0xd3 which calls itself on code - 0x80 and inverts the state,
\* then the explicit releases of F11 and F12.
RECURSIVE map_simple_scan_code_s1(_)
map_simple_scan_code_s1(code) ==
    IF map_simple_scan_code_s1_pressed(code) # None
    THEN map_simple_scan_code_s1_pressed(code)
    ELSE IF code >= \h81 /\ code <= \hD3
    THEN LET n == map_simple_scan_code_s1(code - \h80)
         IN  IF n # None THEN Some(inverted_state(n[1])) ELSE None
    ELSE IF code = \hD7 THEN Some(Key_new("F11", Released))
    ELSE IF code = \hD8 THEN Some(Key_new("F12", Released))
    ELSE None

\* The press arms 0x10 ..= 0x6d of map_media_scan_code_s1 (reader.rs:348-384),
\* code :> key.
map_media_scan_code_s1_pressed_arms ==
       \h10 :> create_pressed_key("PreviousTrack")
    @@ \h19 :> create_pressed_key("NextTrack")
    @@ \h1C :> create_pressed_keypad_key("Enter")
    @@ \h1D :> create_pressed_key("RightCtrl")
    @@ \h20 :> create_pressed_key("Mute")
    @@ \h21 :> create_pressed_key("Calculator")
    @@ \h22 :> create_pressed_key("Play")
    @@ \h24 :> create_pressed_key("Stop")
    @@ \h2E :> create_pressed_key("VolumeDown")
    @@ \h30 :> create_pressed_key("VolumeUp")
    @@ \h32 :> create_pressed_key("WWWHome")
    @@ \h35 :> create_pressed_keypad_key("SymbolForwardSlash")
    @@ \h38 :> create_pressed_key("RightAlt")
    @@ \h48 :> create_pressed_key("CursorUp")
    @@ \h49 :> create_pressed_key("PageUp")
    @@ \h4B :> create_pressed_key("CursorLeft")
    @@ \h4D :> create_pressed_key("CursorRight")
    @@ \h4F :> create_pressed_key("End")
    @@ \h50 :> create_pressed_key("CursorDown")
    @@ \h51 :> create_pressed_key("PageDown")
    @@ \h52 :> create_pressed_key("Insert")
    @@ \h53 :> create_pressed_key("Delete")
    @@ \h5B :> create_pressed_key("LeftGUI")
    @@ \h5C :> create_pressed_key("RightGUI")
    @@ \h5D :> create_pressed_key("Apps")
    @@ \h5E :> create_pressed_key("ACPIPower")
    @@ \h5F :> create_pressed_key("ACPISleep")
    @@ \h63 :> create_pressed_key("ACPIWake")
    @@ \h65 :> create_pressed_key("WWWSearch")
    @@ \h66 :> create_pressed_key("WWWFavorites")
    @@ \h67 :> create_pressed_key("WWWRefresh")
    @@ \h68 :> create_pressed_key("WWWStop")
    @@ \h69 :> create_pressed_key("WWWForward")
    @@ \h6A :> create_pressed_key("WWWBack")
    @@ \h6B :> create_pressed_key("MyComputer")
    @@ \h6C :> create_pressed_key("Email")
    @@ \h6D :> create_pressed_key("MediaSelect")

\* A plausible slip: a code without an arm gives a key of ScanType Unknown.
map_media_scan_code_s1_pressed_unknown(code) ==
    IF code \in DOMAIN map_media_scan_code_s1_pressed_arms
    THEN map_media_scan_code_s1_pressed_arms[code]
    ELSE Some(Key_new("Unknown", Pressed))

\* The key of the press arm that matches code, None when none does.
map_media_scan_code_s1_pressed(code) ==
    IF code \in DOMAIN map_media_scan_code_s1_pressed_arms THEN map_media_scan_code_s1_pressed_arms[code] ELSE None

\* Reader::map_media_scan_code_s1: the press arms, then the release range
\* 0x90 ..= 0xed which calls itself on code - 0x80 and inverts the state.
RECURSIVE map_media_scan_code_s1(_)
map_media_scan_code_s1(code) ==
    IF map_media_scan_code_s1_pressed(code) # None
    THEN map_media_scan_code_s1_pressed(code)
    ELSE IF code >= \h90 /\ code <= \hED
    THEN LET n == map_media_scan_code_s1(code - \h80)
         IN  IF n # None THEN Some(inverted_state(n[1])) ELSE None
    ELSE None

\* [0u8; 6]
EmptyHistory == [i \in 0 .. 5 |-> 0]

\* Reader::new (reader.rs:27-32)
Reader_new(mode) ==
    [mode |-> mode, history_scan_codes |-> EmptyHistory]

\* Reader::zero_scan_codes (reader.rs:34-36)
zero_scan_codes(self) ==
    [self EXCEPT !.history_scan_codes = EmptyHistory]

\* The loop of input_scan_code_s1 (reader.rs:52-59): the index of the first
\* zero slot, 6 when there is none.
first_free(self) ==
    IF self.history_scan_codes[0] = 0 THEN 0
    ELSE IF self.history_scan_codes[1] = 0 THEN 1
    ELSE IF self.history_scan_codes[2] = 0 THEN 2
    ELSE IF self.history_scan_codes[3] = 0 THEN 3
    ELSE IF self.history_scan_codes[4] = 0 THEN 4
    ELSE IF self.history_scan_codes[5] = 0 THEN 5
    ELSE 6

\* self.history_scan_codes[i] = code
store(self, i, code) ==
    [self EXCEPT !.history_scan_codes[i] = code]

\* What a call leaves behind: the Reader after it and the value returned.
Ret(self, res) == [reader |-> self, res |-> res]

\* A plausible slip: a byte that is neither a key nor a prefix is an error.
input_scan_code_s1_at_0_strict(self, code) ==
    IF code <= \hD8
    THEN IF map_simple_scan_code_s1(code) # None
         THEN Ret(zero_scan_codes(self), Ok(map_simple_scan_code_s1(code)))
         ELSE Ret(zero_scan_codes(self), Err("Unknown scan code."))
    ELSE IF code = \hE0 \/ code = \hE1
    THEN Ret(store(self, 0, code), Ok(None))
    ELSE Ret(self, Err("Unknown scan code."))

\* input_scan_code_s1, first_free == 0 (reader.rs:66-82)
input_scan_code_s1_at_0(self, code) ==
    IF code <= \hD8
    THEN Ret(zero_scan_codes(self), Ok(map_simple_scan_code_s1(code)))
    ELSE IF code = \hE0 \/ code = \hE1
    THEN Ret(store(self, 0, code), Ok(None))
    ELSE Ret(self, Ok(None))

\* A plausible slip: the error after 0xE1 returns before the buffer is cleared.
input_scan_code_s1_at_1_no_clear(self, code) ==
    IF self.history_scan_codes[0] = \hE1
    THEN IF code # \h1D
         THEN Ret(self, Err("Invalid follow-up code for 0xE1."))
         ELSE Ret(store(self, 1, code), Ok(None))
    ELSE IF self.history_scan_codes[0] # \hE0
    THEN Ret(zero_scan_codes(self), Err("Invalid previous scan code."))
    ELSE IF code = \h2A \/ code = \hB7
    THEN Ret(store(self, 1, code), Ok(None))
    ELSE Ret(zero_scan_codes(self), Ok(map_media_scan_code_s1(code)))

\* A plausible slip: a second 0xE0 is kept as a pending prefix.
input_scan_code_s1_at_1_keep_e0(self, code) ==
    IF self.history_scan_codes[0] = \hE1
    THEN IF code # \h1D
         THEN Ret(zero_scan_codes(self), Err("Invalid follow-up code for 0xE1."))
         ELSE Ret(store(self, 1, code), Ok(None))
    ELSE IF self.history_scan_codes[0] # \hE0
    THEN Ret(zero_scan_codes(self), Err("Invalid previous scan code."))
    ELSE IF code = \h2A \/ code = \hB7
    THEN Ret(store(self, 1, code), Ok(None))
    ELSE IF code = \hE0
    THEN Ret(self, Ok(None))
    ELSE Ret(zero_scan_codes(self), Ok(map_media_scan_code_s1(code)))

\* input_scan_code_s1, first_free == 1 (reader.rs:83-111)
input_scan_code_s1_at_1(self, code) ==
    IF self.history_scan_codes[0] = \hE1
    THEN IF code # \h1D
         THEN Ret(zero_scan_codes(self), Err("Invalid follow-up code for 0xE1."))
         ELSE Ret(store(self, 1, code), Ok(None))
    ELSE IF self.history_scan_codes[0] # \hE0
    THEN Ret(zero_scan_codes(self), Err("Invalid previous scan code."))
    ELSE IF code = \h2A \/ code = \hB7
    THEN Ret(store(self, 1, code), Ok(None))
    ELSE Ret(zero_scan_codes(self), Ok(map_media_scan_code_s1(code)))

\* A plausible slip: the byte after 0x2A / 0xB7 is stored without the check.
input_scan_code_s1_at_2_unchecked(self, code) ==
    LET previous_code == self.history_scan_codes[1]
    IN  IF previous_code = \h2A \/ previous_code = \hB7
        THEN IF code = 0
             THEN Ret(zero_scan_codes(self), Err("Invalid scan code history."))
             ELSE Ret(store(self, 2, code), Ok(None))
        ELSE IF previous_code = \h1D
        THEN IF code # \h45
             THEN Ret(zero_scan_codes(self), Err("Invalid scan code history."))
             ELSE Ret(store(self, 2, code), Ok(None))
        ELSE Ret(zero_scan_codes(self), Err("Invalid scan code history."))

\* A plausible slip: the 0x45 after 0xE1, 0x1D is decoded by its value, as
\* the NumLock it is at position 0, and ends the chain.
input_scan_code_s1_at_2_by_value(self, code) ==
    LET previous_code == self.history_scan_codes[1]
    IN  IF previous_code = \h2A \/ previous_code = \hB7
        THEN IF code # \hE0
             THEN Ret(zero_scan_codes(self), Err("Invalid scan code history."))
             ELSE Ret(store(self, 2, code), Ok(None))
        ELSE IF previous_code = \h1D
        THEN IF code # \h45
             THEN Ret(zero_scan_codes(self), Err("Invalid scan code history."))
             ELSE Ret(zero_scan_codes(self), Ok(map_simple_scan_code_s1(code)))
        ELSE Ret(zero_scan_codes(self), Err("Invalid scan code history."))

\* input_scan_code_s1, first_free == 2 (reader.rs:112-138)
input_scan_code_s1_at_2(self, code) ==
    LET previous_code == self.history_scan_codes[1]
    IN  IF previous_code = \h2A \/ previous_code = \hB7
        THEN IF code # \hE0
             THEN Ret(zero_scan_codes(self), Err("Invalid scan code history."))
             ELSE Ret(store(self, 2, code), Ok(None))
        ELSE IF previous_code = \h1D
        THEN IF code # \h45
             THEN Ret(zero_scan_codes(self), Err("Invalid scan code history."))
             ELSE Ret(store(self, 2, code), Ok(None))
        ELSE Ret(zero_scan_codes(self), Err("Invalid scan code history."))

\* A plausible slip: Print Screen is returned before the buffer is cleared.
input_scan_code_s1_at_3_late_clear(self, code) ==
    LET previous_code == self.history_scan_codes[2]
    IN  IF previous_code = \hE0
        THEN IF code = \h37
             THEN Ret(self, Ok(Some(Key_new("PrintScreen", Pressed))))
             ELSE IF code = \hAA
             THEN Ret(self, Ok(Some(Key_new("PrintScreen", Released))))
             ELSE Ret(zero_scan_codes(self),
                      Err("Invalid scan code expected 0x37 or 0xaa."))
        ELSE IF previous_code = \h45
        THEN IF code # \hE1
             THEN Ret(zero_scan_codes(self), Err("Invalid scan code expected 0xe1."))
             ELSE Ret(store(self, 3, code), Ok(None))
        ELSE Ret(zero_scan_codes(self), Err("Invalid scan code history."))

\* A plausible slip: the press and release codes of Print Screen are swapped.
input_scan_code_s1_at_3_swapped(self, code) ==
    LET previous_code == self.history_scan_codes[2]
    IN  IF previous_code = \hE0
        THEN IF code = \hAA
             THEN Ret(zero_scan_codes(self),
                      Ok(Some(Key_new("PrintScreen", Pressed))))
             ELSE IF code = \h37
             THEN Ret(zero_scan_codes(self),
                      Ok(Some(Key_new("PrintScreen", Released))))
             ELSE Ret(zero_scan_codes(self),
                      Err("Invalid scan code expected 0x37 or 0xaa."))
        ELSE IF previous_code = \h45
        THEN IF code # \hE1
             THEN Ret(zero_scan_codes(self), Err("Invalid scan code expected 0xe1."))
             ELSE Ret(store(self, 3, code), Ok(None))
        ELSE Ret(zero_scan_codes(self), Err("Invalid scan code history."))

\* input_scan_code_s1, first_free == 3 (reader.rs:139-165)
input_scan_code_s1_at_3(self, code) ==
    LET previous_code == self.history_scan_codes[2]
    IN  IF previous_code = \hE0
        THEN IF code = \h37
             THEN Ret(zero_scan_codes(self),
                      Ok(Some(Key_new("PrintScreen", Pressed))))
             ELSE IF code = \hAA
             THEN Ret(zero_scan_codes(self),
                      Ok(Some(Key_new("PrintScreen", Released))))
             ELSE Ret(zero_scan_codes(self),
                      Err("Invalid scan code expected 0x37 or 0xaa."))
        ELSE IF previous_code = \h45
        THEN IF code # \hE1
             THEN Ret(zero_scan_codes(self), Err("Invalid scan code expected 0xe1."))
             ELSE Ret(store(self, 3, code), Ok(None))
        ELSE Ret(zero_scan_codes(self), Err("Invalid scan code history."))

\* A plausible slip: the fifth byte of Pause is stored without the check.
input_scan_code_s1_at_4_unchecked(self, code) ==
    IF self.history_scan_codes[3] # \hE1
    THEN Ret(zero_scan_codes(self), Err("Invalid scan code history."))
    ELSE Ret(store(self, 4, code), Ok(None))

\* input_scan_code_s1, first_free == 4 (reader.rs:166-178, 195): the stored
\* 0x9d falls through to the final return Ok(None).
input_scan_code_s1_at_4(self, code) ==
    IF self.history_scan_codes[3] # \hE1
    THEN Ret(zero_scan_codes(self), Err("Invalid scan code history."))
    ELSE IF code # \h9D
    THEN Ret(zero_scan_codes(self), Err("Invalid scan code expected 0x9d"))
    ELSE Ret(store(self, 4, code), Ok(None))

\* A plausible slip: the last byte of Pause is compared with 0x45, the make
\* code of NumLock, instead of 0xc5.
input_scan_code_s1_at_5_make_code(self, code) ==
    IF self.history_scan_codes[4] # \h9D
    THEN Ret(zero_scan_codes(self), Err("Invalid scan code history."))
    ELSE IF code # \h45
    THEN Ret(zero_scan_codes(self), Err("Invalid scan code expected 0xc5"))
    ELSE Ret(zero_scan_codes(self), Ok(Some(Key_new("Pause", Pressed))))

\* A plausible slip: the last byte of Pause is stored like the five before
\* it and the buffer is not cleared when the key is returned.
input_scan_code_s1_at_5_stored(self, code) ==
    IF self.history_scan_codes[4] # \h9D
    THEN Ret(zero_scan_codes(self), Err("Invalid scan code history."))
    ELSE IF code # \hC5
    THEN Ret(zero_scan_codes(self), Err("Invalid scan code expected 0xc5"))
    ELSE Ret(store(self, 5, code), Ok(Some(Key_new("Pause", Pressed))))

\* A plausible slip: the error on the last byte of Pause returns before the
\* buffer is cleared.
input_scan_code_s1_at_5_no_clear(self, code) ==
    IF self.history_scan_codes[4] # \h9D
    THEN Ret(zero_scan_codes(self), Err("Invalid scan code history."))
    ELSE IF code # \hC5
    THEN Ret(self, Err("Invalid scan code expected 0xc5"))
    ELSE Ret(zero_scan_codes(self), Ok(Some(Key_new("Pause", Pressed))))

\* input_scan_code_s1, first_free == 5 (reader.rs:179-193)
input_scan_code_s1_at_5(self, code) ==
    IF self.history_scan_codes[4] # \h9D
    THEN Ret(zero_scan_codes(self), Err("Invalid scan code history."))
    ELSE IF code # \hC5
    THEN Ret(zero_scan_codes(self), Err("Invalid scan code expected 0xc5"))
    ELSE Ret(zero_scan_codes(self), Ok(Some(Key_new("Pause", Pressed))))

\* Reader::input_scan_code_s1 (reader.rs:51-196)
input_scan_code_s1(self, code) ==
    LET ff == first_free(self)
    IN  IF ff = 6 THEN Ret(self, Err("Scan code buffer full."))
        ELSE IF ff = 0 THEN input_scan_code_s1_at_0(self, code)
        ELSE IF ff = 1 THEN input_scan_code_s1_at_1(self, code)
        ELSE IF ff = 2 THEN input_scan_code_s1_at_2(self, code)
        ELSE IF ff = 3 THEN input_scan_code_s1_at_3(self, code)
        ELSE IF ff = 4 THEN input_scan_code_s1_at_4(self, code)
        ELSE input_scan_code_s1_at_5(self, code)

\* A plausible slip: the mode is replaced and the pending bytes are kept.
switch_scan_mode_keep_history(self, mode) ==
    [self EXCEPT !.mode = mode]

\* Reader::switch_scan_mode (reader.rs:38-41)
switch_scan_mode(self, mode) ==
    [zero_scan_codes(self) EXCEPT !.mode = mode]

\* A plausible slip: set 2 has no decoder yet and ignores every byte.
input_scan_code_set2_stub(self, code) ==
    IF self.mode = "Set1" THEN input_scan_code_s1(self, code)
    ELSE IF self.mode = "Set2" THEN Ret(self, Ok(None))
    ELSE input_scan_code_s1(self, code)

\* Reader::input_scan_code (reader.rs:43-49)
input_scan_code(self, code) ==
    IF self.mode = "Set1" THEN input_scan_code_s1(self, code)
    ELSE IF self.mode = "Set2" THEN input_scan_code_s1(self, code)
    ELSE input_scan_code_s1(self, code)

\* Reader::input_scan_code applied to the bytes of a sequence in order, as the
\* tests of reader.rs do: the Reader afterwards and the values returned.
RECURSIVE feed(_, _)
feed(self, codes) ==
    IF codes = << >>
    THEN [reader |-> self, results |-> << >>]
    ELSE LET r == input_scan_code(self, Head(codes))
             rest == feed(r.reader, Tail(codes))
         IN  [reader |-> rest.reader, results |-> << r.res >> \o rest.results]

(***************************************************************************)
(* The layout of src/layout.rs and the Keyboard of src/keyboard.rs.  A    *)
(* char is the string of that character, the grave accent is "U+0060"; an *)
(* Option<char> is << >> or << ch >>.                                      *)
(***************************************************************************)

\* ScanType (scan_code_set.rs:3-139), in the order of the enumeration
ScanTypeOrder ==
    <<
      "Num0", "Num1", "Num2", "Num3", "Num4", "Num5", "Num6", "Num7",
      "Num8", "Num9", "CharA", "CharB", "CharC", "CharD", "CharE", "CharF",
      "CharG", "CharH", "CharI", "CharJ", "CharK", "CharL", "CharM",
      "CharN", "CharO", "CharP", "CharQ", "CharR", "CharS", "CharT",
      "CharU", "CharV", "CharW", "CharX", "CharY", "CharZ", "SymbolPlus",
      "SymbolMinus", "SymbolEquals", "SymbolOpenSquareBracket",
      "SymbolCloseSquareBracket", "SymbolSemicolon", "SymbolSingleQuote",
      "SymbolBacktick", "SymbolBackslash", "SymbolComma", "SymbolPeriod",
      "SymbolForwardSlash", "SymbolAsterisk", "Escape", "Backspace", "Tab",
      "Enter", "LeftCtrl", "RightCtrl", "LeftShift", "RightShift",
      "LeftAlt", "RightAlt", "LeftGUI", "RightGUI", "Space", "F1", "F2",
      "F3", "F4", "F5", "F6", "F7", "F8", "F9", "F10", "F11", "F12",
      "NumLock", "ScrollLock", "CapsLock", "Home", "PageUp", "PageDown",
      "CursorUp", "CursorLeft", "CursorRight", "CursorDown", "Insert",
      "Delete", "End", "ACPIPower", "ACPISleep", "ACPIWake",
      "PreviousTrack", "NextTrack", "Mute", "Calculator", "Stop", "Play",
      "WWWHome", "VolumeUp", "VolumeDown", "Apps", "WWWSearch",
      "WWWFavorites", "WWWRefresh", "WWWStop", "WWWForward", "WWWBack",
      "MyComputer", "Email", "MediaSelect", "PrintScreen", "Pause",
      "Unknown" >>

ScanType == {ScanTypeOrder[i] : i \in 1 .. Len(ScanTypeOrder)}

\* ScanType as u8 plus one: the place of a ScanType in the enumeration
ScanIndexTable ==
    [scan_type \in ScanType |->
        CHOOSE i \in 1 .. Len(ScanTypeOrder) : ScanTypeOrder[i] = scan_type]

ScanIndex(scan_type) == ScanIndexTable[scan_type]

\* ScanType::is_letter (scan_code_set.rs:210-212)
is_letter(scan_type) ==
    /\ ScanIndex(scan_type) >= ScanIndex("CharA")
    /\ ScanIndex(scan_type) <= ScanIndex("CharZ")

\* ScanType::is_num (scan_code_set.rs:215-217)
is_num(scan_type) ==
    /\ ScanIndex(scan_type) >= ScanIndex("Num0")
    /\ ScanIndex(scan_type) <= ScanIndex("Num9")

\* Every value of the type Key
Key == [scan_type : ScanType, state : KeyState, keypad : BOOLEAN]

\* KeyModifierState::new (layout.rs:19-33)
KeyModifierState_new ==
    [left_shift |-> FALSE, left_alt |-> FALSE, left_ctrl |-> FALSE,
     left_gui |-> FALSE, right_shift |-> FALSE, right_alt |-> FALSE,
     right_ctrl |-> FALSE, right_gui |-> FALSE, caps_lock |-> FALSE,
     num_lock |-> FALSE, scroll_lock |-> FALSE]

\* Every value of the type KeyModifierState (layout.rs:4-16)
KeyModifierState == [DOMAIN KeyModifierState_new -> BOOLEAN]

\* A plausible slip: both shift keys are required.
shift_down_both(self) ==
    self.left_shift /\ self.right_shift

\* KeyModifierState::shift_down (layout.rs:35-37)
shift_down(self) ==
    self.left_shift \/ self.right_shift

\* the ASCII letters, for char::is_ascii_lowercase, is_ascii_uppercase,
\* to_ascii_uppercase, to_ascii_lowercase
ascii_lowercase ==
    << "a", "b", "c", "d", "e", "f", "g", "h", "i", "j", "k", "l", "m",
       "n", "o", "p", "q", "r", "s", "t", "u", "v", "w", "x", "y", "z" >>

ascii_uppercase ==
    << "A", "B", "C", "D", "E", "F", "G", "H", "I", "J", "K", "L", "M",
       "N", "O", "P", "Q", "R", "S", "T", "U", "V", "W", "X", "Y", "Z" >>

is_ascii_lowercase(ch) == \E i \in 1 .. 26 : ascii_lowercase[i] = ch
is_ascii_uppercase(ch) == \E i \in 1 .. 26 : ascii_uppercase[i] = ch

\* char::is_alphabetic, on the characters the layout produces (all ASCII)
is_alphabetic(ch) == is_ascii_lowercase(ch) \/ is_ascii_uppercase(ch)

to_ascii_uppercase(ch) ==
    IF is_ascii_lowercase(ch)
    THEN ascii_uppercase[CHOOSE i \in 1 .. 26 : ascii_lowercase[i] = ch]
    ELSE ch

to_ascii_lowercase(ch) ==
    IF is_ascii_uppercase(ch)
    THEN ascii_lowercase[CHOOSE i \in 1 .. 26 : ascii_uppercase[i] = ch]
    ELSE ch

\* The arms of the match under shift (layout.rs:69-109), scan type :> char
key_into_char_shift_arms ==
       "CharA" :> "A"
    @@ "CharB" :> "B"
    @@ "CharC" :> "C"
    @@ "CharD" :> "D"
    @@ "CharE" :> "E"
    @@ "CharF" :> "F"
    @@ "CharG" :> "G"
    @@ "CharH" :> "H"
    @@ "CharI" :> "I"
    @@ "CharJ" :> "J"
    @@ "CharK" :> "K"
    @@ "CharL" :> "L"
    @@ "CharM" :> "M"
    @@ "CharN" :> "N"
    @@ "CharO" :> "O"
    @@ "CharP" :> "P"
    @@ "CharQ" :> "Q"
    @@ "CharR" :> "R"
    @@ "CharS" :> "S"
    @@ "CharT" :> "T"
    @@ "CharU" :> "U"
    @@ "CharV" :> "V"
    @@ "CharW" :> "W"
    @@ "CharX" :> "X"
    @@ "CharY" :> "Y"
    @@ "CharZ" :> "Z"
    @@ "SymbolPlus" :> "+"
    @@ "SymbolMinus" :> "_"
    @@ "SymbolEquals" :> "+"
    @@ "SymbolOpenSquareBracket" :> "{"
    @@ "SymbolCloseSquareBracket" :> "}"
    @@ "SymbolSemicolon" :> ":"
    @@ "SymbolSingleQuote" :> "\""
    @@ "SymbolBacktick" :> "~"
    @@ "SymbolBackslash" :> "|"
    @@ "SymbolComma" :> "<"
    @@ "SymbolPeriod" :> ">"
    @@ "SymbolForwardSlash" :> "?"
    @@ "SymbolAsterisk" :> "*"
    @@ "Space" :> " "
    @@ "Tab" :> "\t"

\* The arms for a key that is not on the keypad, under shift
\* (layout.rs:118-127)
key_into_char_shift_num_arms ==
       "Num0" :> ")"
    @@ "Num1" :> "!"
    @@ "Num2" :> "@"
    @@ "Num3" :> "#"
    @@ "Num4" :> "$"
    @@ "Num5" :> "%"
    @@ "Num6" :> "^"
    @@ "Num7" :> "&"
    @@ "Num8" :> "*"
    @@ "Num9" :> "("

\* The arms of the match without shift (layout.rs:135-185)
key_into_char_arms ==
       "Num0" :> "0"
    @@ "Num1" :> "1"
    @@ "Num2" :> "2"
    @@ "Num3" :> "3"
    @@ "Num4" :> "4"
    @@ "Num5" :> "5"
    @@ "Num6" :> "6"
    @@ "Num7" :> "7"
    @@ "Num8" :> "8"
    @@ "Num9" :> "9"
    @@ "CharA" :> "a"
    @@ "CharB" :> "b"
    @@ "CharC" :> "c"
    @@ "CharD" :> "d"
    @@ "CharE" :> "e"
    @@ "CharF" :> "f"
    @@ "CharG" :> "g"
    @@ "CharH" :> "h"
    @@ "CharI" :> "i"
    @@ "CharJ" :> "j"
    @@ "CharK" :> "k"
    @@ "CharL" :> "l"
    @@ "CharM" :> "m"
    @@ "CharN" :> "n"
    @@ "CharO" :> "o"
    @@ "CharP" :> "p"
    @@ "CharQ" :> "q"
    @@ "CharR" :> "r"
    @@ "CharS" :> "s"
    @@ "CharT" :> "t"
    @@ "CharU" :> "u"
    @@ "CharV" :> "v"
    @@ "CharW" :> "w"
    @@ "CharX" :> "x"
    @@ "CharY" :> "y"
    @@ "CharZ" :> "z"
    @@ "SymbolPlus" :> "+"
    @@ "SymbolMinus" :> "-"
    @@ "SymbolEquals" :> "="
    @@ "SymbolOpenSquareBracket" :> "["
    @@ "SymbolCloseSquareBracket" :> "]"
    @@ "SymbolSemicolon" :> ";"
    @@ "SymbolSingleQuote" :> "'"
    @@ "SymbolBacktick" :> "U+0060"
    @@ "SymbolBackslash" :> "\\"
    @@ "SymbolComma" :> ","
    @@ "SymbolPeriod" :> "."
    @@ "SymbolForwardSlash" :> "/"
    @@ "SymbolAsterisk" :> "*"
    @@ "Space" :> " "
    @@ "Tab" :> "\t"

\* A plausible slip: the keypad flag is not looked at under shift.
key_into_char_ch_no_keypad_test(modifiers, key) ==
    IF shift_down(modifiers)
    THEN IF key.scan_type \in DOMAIN key_into_char_shift_arms
         THEN << key_into_char_shift_arms[key.scan_type] >>
         ELSE IF key.scan_type \in DOMAIN key_into_char_shift_num_arms
         THEN << key_into_char_shift_num_arms[key.scan_type] >>
         ELSE << >>
    ELSE IF key.scan_type \in DOMAIN key_into_char_arms
         THEN << key_into_char_arms[key.scan_type] >>
         ELSE << >>

\* A plausible slip: without shift the last arm gives a space instead of
\* returning None.
key_into_char_ch_default_space(modifiers, key) ==
    IF shift_down(modifiers)
    THEN IF key.scan_type \in DOMAIN key_into_char_shift_arms
         THEN << key_into_char_shift_arms[key.scan_type] >>
         ELSE IF key.keypad
         THEN << >>
         ELSE IF key.scan_type \in DOMAIN key_into_char_shift_num_arms
         THEN << key_into_char_shift_num_arms[key.scan_type] >>
         ELSE << >>
    ELSE IF key.scan_type \in DOMAIN key_into_char_arms
         THEN << key_into_char_arms[key.scan_type] >>
         ELSE << " " >>

\* The value of ch in key_into_char (layout.rs:64-188), << >> where the
\* function returns None before it reaches the caps lock test.
key_into_char_ch(modifiers, key) ==
    IF shift_down(modifiers)
    THEN IF key.scan_type \in DOMAIN key_into_char_shift_arms
         THEN << key_into_char_shift_arms[key.scan_type] >>
         ELSE IF key.keypad
         THEN << >>
         ELSE IF key.scan_type \in DOMAIN key_into_char_shift_num_arms
         THEN << key_into_char_shift_num_arms[key.scan_type] >>
         ELSE << >>
    ELSE IF key.scan_type \in DOMAIN key_into_char_arms
         THEN << key_into_char_arms[key.scan_type] >>
         ELSE << >>

\* A plausible slip: caps lock is not looked at.
key_into_char_caps_ignored(modifiers, ch) ==
    Some(ch)

\* A plausible slip: caps lock makes upper case and never lower case.
key_into_char_caps_upper_only(modifiers, ch) ==
    IF modifiers.caps_lock /\ is_alphabetic(ch)
    THEN Some(to_ascii_uppercase(ch))
    ELSE Some(ch)

\* The caps lock test of key_into_char (layout.rs:190-200)
key_into_char_caps(modifiers, ch) ==
    IF modifiers.caps_lock /\ is_alphabetic(ch)
    THEN IF is_ascii_lowercase(ch) THEN Some(to_ascii_uppercase(ch))
         ELSE IF is_ascii_uppercase(ch) THEN Some(to_ascii_lowercase(ch))
         ELSE Some(ch)
    ELSE Some(ch)

\* A plausible slip: only a pressed key gives a character.
key_into_char_pressed_only(modifiers, key) ==
    IF key.state # Pressed \/ key_into_char_ch(modifiers, key) = << >>
    THEN None
    ELSE key_into_char_caps(modifiers, key_into_char_ch(modifiers, key)[1])

\* USStandardLayout::key_into_char (layout.rs:60-201)
key_into_char(modifiers, key) ==
    IF key_into_char_ch(modifiers, key) = << >>
    THEN None
    ELSE key_into_char_caps(modifiers, key_into_char_ch(modifiers, key)[1])

\* Key::is_pressed (scan_code_set.rs:198-200)
is_pressed(key) == key.state = Pressed

\* Keyboard::new with the layout USStandardLayout, which has no fields
\* (keyboard.rs:11-17)
Keyboard_new(mode) ==
    [reader |-> Reader_new(mode), modifiers |-> KeyModifierState_new]

\* A plausible slip: a new KeyModifierState is returned, not the copy.
current_state_new(self) == KeyModifierState_new

\* Keyboard::current_state (keyboard.rs:19-21)
current_state(self) == self.modifiers

\* A plausible slip: the arm of RightShift writes the field of LeftShift.
check_apply_modifiers_wrong_side(self, key) ==
    CASE key.scan_type = "LeftGUI" ->
            [self EXCEPT !.modifiers.left_gui = is_pressed(key)]
      [] key.scan_type = "RightGUI" ->
            [self EXCEPT !.modifiers.right_gui = is_pressed(key)]
      [] key.scan_type = "LeftAlt" ->
            [self EXCEPT !.modifiers.left_alt = is_pressed(key)]
      [] key.scan_type = "RightAlt" ->
            [self EXCEPT !.modifiers.right_alt = is_pressed(key)]
      [] key.scan_type = "LeftShift" ->
            [self EXCEPT !.modifiers.left_shift = is_pressed(key)]
      [] key.scan_type = "RightShift" ->
            [self EXCEPT !.modifiers.left_shift = is_pressed(key)]
      [] key.scan_type = "LeftCtrl" ->
            [self EXCEPT !.modifiers.left_ctrl = is_pressed(key)]
      [] key.scan_type = "RightCtrl" ->
            [self EXCEPT !.modifiers.right_ctrl = is_pressed(key)]
      [] key.scan_type = "NumLock" ->
            IF is_pressed(key)
            THEN [self EXCEPT !.modifiers.num_lock = ~ self.modifiers.num_lock]
            ELSE self
      [] key.scan_type = "CapsLock" ->
            IF is_pressed(key)
            THEN [self EXCEPT !.modifiers.caps_lock = ~ self.modifiers.caps_lock]
            ELSE self
      [] key.scan_type = "ScrollLock" ->
            IF is_pressed(key)
            THEN [self EXCEPT !.modifiers.scroll_lock = ~ self.modifiers.scroll_lock]
            ELSE self
      [] OTHER -> self

\* A plausible slip: the lock keys toggle on the release too.
check_apply_modifiers_toggle_on_release(self, key) ==
    CASE key.scan_type = "LeftGUI" ->
            [self EXCEPT !.modifiers.left_gui = is_pressed(key)]
      [] key.scan_type = "RightGUI" ->
            [self EXCEPT !.modifiers.right_gui = is_pressed(key)]
      [] key.scan_type = "LeftAlt" ->
            [self EXCEPT !.modifiers.left_alt = is_pressed(key)]
      [] key.scan_type = "RightAlt" ->
            [self EXCEPT !.modifiers.right_alt = is_pressed(key)]
      [] key.scan_type = "LeftShift" ->
            [self EXCEPT !.modifiers.left_shift = is_pressed(key)]
      [] key.scan_type = "RightShift" ->
            [self EXCEPT !.modifiers.right_shift = is_pressed(key)]
      [] key.scan_type = "LeftCtrl" ->
            [self EXCEPT !.modifiers.left_ctrl = is_pressed(key)]
      [] key.scan_type = "RightCtrl" ->
            [self EXCEPT !.modifiers.right_ctrl = is_pressed(key)]
      [] key.scan_type = "NumLock" ->
            [self EXCEPT !.modifiers.num_lock = ~ self.modifiers.num_lock]
      [] key.scan_type = "CapsLock" ->
            [self EXCEPT !.modifiers.caps_lock = ~ self.modifiers.caps_lock]
      [] key.scan_type = "ScrollLock" ->
            [self EXCEPT !.modifiers.scroll_lock = ~ self.modifiers.scroll_lock]
      [] OTHER -> self

\* A plausible slip: any key that is not a modifier releases the shifts.
check_apply_modifiers_other_clears(self, key) ==
    CASE key.scan_type = "LeftGUI" ->
            [self EXCEPT !.modifiers.left_gui = is_pressed(key)]
      [] key.scan_type = "RightGUI" ->
            [self EXCEPT !.modifiers.right_gui = is_pressed(key)]
      [] key.scan_type = "LeftAlt" ->
            [self EXCEPT !.modifiers.left_alt = is_pressed(key)]
      [] key.scan_type = "RightAlt" ->
            [self EXCEPT !.modifiers.right_alt = is_pressed(key)]
      [] key.scan_type = "LeftShift" ->
            [self EXCEPT !.modifiers.left_shift = is_pressed(key)]
      [] key.scan_type = "RightShift" ->
            [self EXCEPT !.modifiers.right_shift = is_pressed(key)]
      [] key.scan_type = "LeftCtrl" ->
            [self EXCEPT !.modifiers.left_ctrl = is_pressed(key)]
      [] key.scan_type = "RightCtrl" ->
            [self EXCEPT !.modifiers.right_ctrl = is_pressed(key)]
      [] key.scan_type = "NumLock" ->
            IF is_pressed(key)
            THEN [self EXCEPT !.modifiers.num_lock = ~ self.modifiers.num_lock]
            ELSE self
      [] key.scan_type = "CapsLock" ->
            IF is_pressed(key)
            THEN [self EXCEPT !.modifiers.caps_lock = ~ self.modifiers.caps_lock]
            ELSE self
      [] key.scan_type = "ScrollLock" ->
            IF is_pressed(key)
            THEN [self EXCEPT !.modifiers.scroll_lock = ~ self.modifiers.scroll_lock]
            ELSE self
      [] OTHER -> [self EXCEPT !.modifiers.left_shift = FALSE,
                               !.modifiers.right_shift = FALSE]

\* Keyboard::check_apply_modifiers (keyboard.rs:49-79)
check_apply_modifiers(self, key) ==
    CASE key.scan_type = "LeftGUI" ->
            [self EXCEPT !.modifiers.left_gui = is_pressed(key)]
      [] key.scan_type = "RightGUI" ->
            [self EXCEPT !.modifiers.right_gui = is_pressed(key)]
      [] key.scan_type = "LeftAlt" ->
            [self EXCEPT !.modifiers.left_alt = is_pressed(key)]
      [] key.scan_type = "RightAlt" ->
            [self EXCEPT !.modifiers.right_alt = is_pressed(key)]
      [] key.scan_type = "LeftShift" ->
            [self EXCEPT !.modifiers.left_shift = is_pressed(key)]
      [] key.scan_type = "RightShift" ->
            [self EXCEPT !.modifiers.right_shift = is_pressed(key)]
      [] key.scan_type = "LeftCtrl" ->
            [self EXCEPT !.modifiers.left_ctrl = is_pressed(key)]
      [] key.scan_type = "RightCtrl" ->
            [self EXCEPT !.modifiers.right_ctrl = is_pressed(key)]
      [] key.scan_type = "NumLock" ->
            IF is_pressed(key)
            THEN [self EXCEPT !.modifiers.num_lock = ~ self.modifiers.num_lock]
            ELSE self
      [] key.scan_type = "CapsLock" ->
            IF is_pressed(key)
            THEN [self EXCEPT !.modifiers.caps_lock = ~ self.modifiers.caps_lock]
            ELSE self
      [] key.scan_type = "ScrollLock" ->
            IF is_pressed(key)
            THEN [self EXCEPT !.modifiers.scroll_lock = ~ self.modifiers.scroll_lock]
            ELSE self
      [] OTHER -> self

\* What a call on a Keyboard leaves behind: the Keyboard after it and the
\* value returned.
KbRet(self, ret) == [keyboard |-> self, ret |-> ret]

\* A plausible slip: an error of the Reader also resets the modifiers.
try_raw_input_byte_match_reset_on_err(self, scanned) ==
    IF scanned.res.ok /\ scanned.res.val # None
    THEN KbRet(check_apply_modifiers([self EXCEPT !.reader = scanned.reader],
                                     scanned.res.val[1]),
               Ok(Some(scanned.res.val[1])))
    ELSE IF ~ scanned.res.ok
    THEN KbRet([self EXCEPT !.reader = scanned.reader,
                            !.modifiers = KeyModifierState_new], scanned.res)
    ELSE KbRet([self EXCEPT !.reader = scanned.reader], scanned.res)

\* The match of try_raw_input_byte (keyboard.rs:39-46) on scanned, what
\* self.reader.input_scan_code(byte) left behind.
try_raw_input_byte_match(self, scanned) ==
    IF scanned.res.ok /\ scanned.res.val # None
    THEN KbRet(check_apply_modifiers([self EXCEPT !.reader = scanned.reader],
                                     scanned.res.val[1]),
               Ok(Some(scanned.res.val[1])))
    ELSE KbRet([self EXCEPT !.reader = scanned.reader], scanned.res)

\* Keyboard::try_raw_input_byte (keyboard.rs:36-47)
try_raw_input_byte(self, byte) ==
    try_raw_input_byte_match(self, input_scan_code(self.reader, byte))

\* The match of raw_input_byte (keyboard.rs:30-33) on r, what
\* self.try_raw_input_byte(byte) left behind.
raw_input_byte_match(r) ==
    IF r.ret.ok THEN KbRet(r.keyboard, r.ret.val) ELSE KbRet(r.keyboard, None)

\* Keyboard::raw_input_byte (keyboard.rs:29-34)
raw_input_byte(self, byte) ==
    raw_input_byte_match(try_raw_input_byte(self, byte))

\* A plausible slip: the layout is given a new KeyModifierState instead of
\* the one of the Keyboard.
input_byte_layout_new_state(r) ==
    IF r.ret = None
    THEN KbRet(r.keyboard, None)
    ELSE KbRet(r.keyboard, key_into_char(KeyModifierState_new, r.ret[1]))

\* The body of input_byte (keyboard.rs:24-26) on r, what
\* self.raw_input_byte(byte) left behind: the ? returns None, otherwise the
\* layout is asked with the modifiers as they are now.
input_byte_layout(r) ==
    IF r.ret = None
    THEN KbRet(r.keyboard, None)
    ELSE KbRet(r.keyboard, key_into_char(r.keyboard.modifiers, r.ret[1]))

\* Keyboard::input_byte (keyboard.rs:23-27)
input_byte(self, byte) ==
    input_byte_layout(raw_input_byte(self, byte))

\* Keyboard::input_byte applied to the bytes of a sequence in order, as the
\* tests of keyboard.rs do: the Keyboard afterwards.
RECURSIVE kb_feed(_, _)
kb_feed(self, bytes) ==
    IF bytes = << >>
    THEN self
    ELSE kb_feed(input_byte(self, Head(bytes)).keyboard, Tail(bytes))

(***************************************************************************)
(* The state.                                                              *)
(*   reader        the Reader under observation                            *)
(*   last_call     the last method called on it                            *)
(*   res           the value returned by its last input_scan_code          *)
(*   fed, emitted  the bytes fed since the history buffer was last empty   *)
(*                 (the first of them met an empty buffer) and the values  *)
(*                 returned for them                                       *)
(*   set1_reader, set1_res                                                 *)
(*                 a second Reader, always in Set1, given the same bytes   *)
(*   fresh_reader, fresh_res                                               *)
(*                 a third Reader, constructed by Reader::new each time    *)
(*                 the first one returns Err and given the same bytes      *)
(*                 from then on; << >> before the first error              *)
(*   switched      << >>, or, when the last call was switch_scan_mode, the *)
(*                 mode it was given and the history buffer it found       *)
(***************************************************************************)
VARIABLES reader, last_call, res, fed, emitted,
          set1_reader, set1_res, fresh_reader, fresh_res, switched

reader_vars == << reader, last_call, res, fed, emitted,
                  set1_reader, set1_res, fresh_reader, fresh_res, switched >>

(***************************************************************************)
(* The state of a Keyboard with the layout USStandardLayout.              *)
(*   keyboard      the Keyboard: its Reader and its KeyModifierState       *)
(*   kb_scanned    what its Reader returned for the last byte              *)
(*   kb_res        what try_raw_input_byte returned for the last byte      *)
(*   kb_key        what raw_input_byte returned for it                     *)
(*   kb_char       what input_byte returned for it                         *)
(*   kb_calls      the number of bytes fed, counted up to 1                *)
(*   held          the ScanTypes of the shift, ctrl, alt and GUI keys      *)
(*                 whose last event returned by the Reader was Pressed     *)
(*   toggled       the ScanTypes of the lock keys for which the Reader     *)
(*                 has returned an odd number of Pressed events            *)
(*   caps_presses  the number of CapsLock/Pressed events the Reader has    *)
(*                 returned                                                *)
(*   snapshots     what the calls of current_state since the last byte    *)
(*                 have returned, in order                                 *)
(***************************************************************************)
VARIABLES keyboard, kb_scanned, kb_res, kb_key, kb_char, kb_calls,
          held, toggled, caps_presses, snapshots

kb_vars == << keyboard, kb_scanned, kb_res, kb_key, kb_char, kb_calls,
              held, toggled, caps_presses, snapshots >>

(***************************************************************************)
(* The state of one application of USStandardLayout::key_into_char.       *)
(*   lay_modifiers, lay_key   its arguments                                *)
(*   lay_char                 << >> before the call, << c >> after it,     *)
(*                            c the Option<char> returned                  *)
(***************************************************************************)
VARIABLES lay_modifiers, lay_key, lay_char

lay_vars == << lay_modifiers, lay_key, lay_char >>

vars == << reader_vars, kb_vars, lay_vars >>

\* A Keyboard that is constructed and given no byte.
KbIdle ==
    /\ keyboard = Keyboard_new("Set1")
    /\ kb_scanned = Ok(None)
    /\ kb_res = Ok(None)
    /\ kb_key = None
    /\ kb_char = None
    /\ kb_calls = 0
    /\ held = {}
    /\ toggled = {}
    /\ caps_presses = 0
    /\ snapshots = << >>

\* No application of the layout.
LayoutIdle ==
    /\ lay_modifiers = KeyModifierState_new
    /\ lay_key = Key_new("Unknown", Pressed)
    /\ lay_char = << >>

\* A Reader that is constructed and given no byte.
ReaderIdle ==
    /\ reader = Reader_new("Set1")
    /\ last_call = "new"
    /\ res = Ok(None)
    /\ fed = << >>
    /\ emitted = << >>
    /\ set1_reader = Reader_new("Set1")
    /\ set1_res = Ok(None)
    /\ fresh_reader = << >>
    /\ fresh_res = << >>
    /\ switched = << >>

Init ==
    /\ KbIdle
    /\ LayoutIdle
    /\ \E mode \in ReaderMode : reader = Reader_new(mode)
    /\ last_call = "new"
    /\ res = Ok(None)
    /\ fed = << >>
    /\ emitted = << >>
    /\ set1_reader = Reader_new("Set1")
    /\ set1_res = Ok(None)
    /\ fresh_reader = << >>
    /\ fresh_res = << >>
    /\ switched = << >>

\* reader.input_scan_code(code), and the same call on the other two Readers.
\* Each call is evaluated once and its outcome bound to r, s, f.
InputScanCode(code) ==
    \E r \in {input_scan_code(reader, code)} :
    \E s \in {input_scan_code(set1_reader, code)} :
    \E ff \in {first_free(reader)} :
        /\ reader' = r.reader
        /\ res' = r.res
        /\ last_call' = "input_scan_code"
        /\ switched' = << >>
        /\ UNCHANGED << kb_vars, lay_vars >>
        /\ fed' = IF ff = 0 THEN << code >> ELSE Append(fed, code)
        /\ emitted' = IF ff = 0 THEN << r.res >>
                      ELSE Append(emitted, r.res)
        /\ set1_reader' = s.reader
        /\ set1_res' = s.res
        /\ IF ~ r.res.ok
           THEN /\ fresh_reader' = << Reader_new(reader.mode) >>
                /\ fresh_res' = << >>
           ELSE IF fresh_reader # << >>
           THEN \E f \in {input_scan_code(fresh_reader[1], code)} :
                    /\ fresh_reader' = << f.reader >>
                    /\ fresh_res' = << f.res >>
           ELSE UNCHANGED << fresh_reader, fresh_res >>

\* reader.switch_scan_mode(mode); the Set1 Reader is switched to Set1 and the
\* fresh one to mode
SwitchScanMode(mode) ==
    /\ reader' = switch_scan_mode(reader, mode)
    /\ last_call' = "switch_scan_mode"
    /\ switched' = << [mode |-> mode, before |-> reader.history_scan_codes] >>
    /\ fed' = << >>
    /\ emitted' = << >>
    /\ set1_reader' = switch_scan_mode(set1_reader, "Set1")
    /\ fresh_reader' = IF fresh_reader = << >> THEN << >>
                       ELSE << switch_scan_mode(fresh_reader[1], mode) >>
    /\ UNCHANGED << res, set1_res, fresh_res >>
    /\ UNCHANGED << kb_vars, lay_vars >>

Next ==
    \/ \E code \in Byte : InputScanCode(code)
    \/ \E mode \in ReaderMode : SwitchScanMode(mode)

Spec == Init /\ [][Next]_vars

TypeOK ==
    /\ reader.mode \in ReaderMode
    /\ reader.history_scan_codes \in [0 .. 5 -> Byte]
    /\ last_call \in {"new", "input_scan_code", "switch_scan_mode"}
    /\ res.ok \in BOOLEAN
    /\ Len(res.val) <= 1
    /\ Len(fed) = Len(emitted)

(***************************************************************************)
(* The Keyboard as a state machine: bytes of KbBytes are fed one at a     *)
(* time by input_byte, which calls raw_input_byte, which calls            *)
(* try_raw_input_byte.                                                     *)
(***************************************************************************)

\* The bytes fed to the Keyboard: the make and break codes of the eleven
\* modifier keys (four of them after 0xE0), the prefixes, the bytes of the
\* Pause and Print Screen chains, a letter, a digit of the main block and
\* the same digit of the keypad, and a byte that is no code.
KbBytes ==
    { \h2A, \hAA, \h36, \hB6, \h1D, \h9D, \h38, \hB8,
      \h5B, \hDB, \h5C, \hDC,
      \h3A, \hBA, \h45, \hC5, \h46, \hC6,
      \hE0, \hE1, \h37, \hB7,
      \h1E, \h9E, \h08, \h47, \hDE }

\* How many CapsLock presses are followed.
MaxCapsPresses == 2

MomentaryModifiers ==
    { "LeftShift", "RightShift", "LeftCtrl", "RightCtrl",
      "LeftAlt", "RightAlt", "LeftGUI", "RightGUI" }

LockModifiers == { "CapsLock", "NumLock", "ScrollLock" }

\* held after the Reader returned scanned
HeldAfter(scanned) ==
    IF scanned.ok /\ scanned.val # None
           /\ scanned.val[1].scan_type \in MomentaryModifiers
    THEN IF scanned.val[1].state = Pressed
         THEN held \cup {scanned.val[1].scan_type}
         ELSE held \ {scanned.val[1].scan_type}
    ELSE held

\* the Reader returned a Pressed event of a lock key
LockPress(scanned) ==
    /\ scanned.ok
    /\ scanned.val # None
    /\ scanned.val[1].scan_type \in LockModifiers
    /\ scanned.val[1].state = Pressed

\* toggled after the Reader returned scanned
ToggledAfter(scanned) ==
    IF LockPress(scanned)
    THEN IF scanned.val[1].scan_type \in toggled
         THEN toggled \ {scanned.val[1].scan_type}
         ELSE toggled \cup {scanned.val[1].scan_type}
    ELSE toggled

CapsPress(scanned) ==
    LockPress(scanned) /\ scanned.val[1].scan_type = "CapsLock"

\* Keyboard::new(ReaderMode::Set1, USStandardLayout), as the tests of
\* keyboard.rs construct it (keyboard.rs:92)
KbInit ==
    /\ KbIdle
    /\ ReaderIdle
    /\ LayoutIdle

\* keyboard.input_byte(byte), call by call: the Reader's input_scan_code,
\* the match of try_raw_input_byte on it, the match of raw_input_byte on
\* that, and the layout; each is evaluated once and its outcome bound to
\* scanned, t, r, i.
InputByte(byte) ==
    \E scanned \in {input_scan_code(keyboard.reader, byte)} :
    \E t \in {try_raw_input_byte_match(keyboard, scanned)} :
    \E r \in {raw_input_byte_match(t)} :
    \E i \in {input_byte_layout(r)} :
        /\ CapsPress(scanned.res) => caps_presses < MaxCapsPresses
        /\ keyboard' = i.keyboard
        /\ kb_char' = i.ret
        /\ kb_key' = r.ret
        /\ kb_res' = t.ret
        /\ kb_scanned' = scanned.res
        /\ kb_calls' = 1
        /\ held' = HeldAfter(scanned.res)
        /\ toggled' = ToggledAfter(scanned.res)
        /\ caps_presses' = IF CapsPress(scanned.res) THEN caps_presses + 1
                           ELSE caps_presses
        /\ snapshots' = << >>
        /\ UNCHANGED << reader_vars, lay_vars >>

KbNext ==
    \E byte \in KbBytes : InputByte(byte)

KbSpec == KbInit /\ [][KbNext]_vars

(***************************************************************************)
(* The Keyboard with its two public operations, input_byte and            *)
(* current_state, on fewer bytes: both shifts, left ctrl, the three lock  *)
(* keys, the two prefixes and the two codes of a letter.                  *)
(***************************************************************************)
KbStateBytes ==
    { \h2A, \hAA, \h36, \hB6, \h1D, \h9D, \h3A, \h45, \h46, \hE0, \hE1,
      \h1E, \h9E }

\* How many calls of current_state in a row are followed.
MaxSnapshots == 2

\* keyboard.current_state(): &self, so the Keyboard is as it was; the value
\* returned is kept.
CurrentState ==
    /\ Len(snapshots) < MaxSnapshots
    /\ snapshots' = Append(snapshots, current_state(keyboard))
    /\ UNCHANGED << keyboard, kb_scanned, kb_res, kb_key, kb_char, kb_calls,
                    held, toggled, caps_presses >>
    /\ UNCHANGED << reader_vars, lay_vars >>

KbStateNext ==
    \/ \E byte \in KbStateBytes : InputByte(byte)
    \/ CurrentState

KbStateSpec == KbInit /\ [][KbStateNext]_vars

(***************************************************************************)
(* One application of USStandardLayout::key_into_char to any modifier     *)
(* state and any Key.                                                      *)
(***************************************************************************)
LayoutInit ==
    /\ lay_modifiers \in KeyModifierState
    /\ lay_key \in Key
    /\ lay_char = << >>
    /\ ReaderIdle
    /\ KbIdle

KeyIntoChar ==
    /\ lay_char = << >>
    /\ lay_char' = << key_into_char(lay_modifiers, lay_key) >>
    /\ UNCHANGED << lay_modifiers, lay_key, reader_vars, kb_vars >>

LayoutNext == KeyIntoChar

LayoutSpec == LayoutInit /\ [][LayoutNext]_vars

(***************************************************************************)
(* Helpers of the properties.                                              *)
(***************************************************************************)

\* The history buffer that holds the bytes of seq in its first slots.
Pad(seq) == [i \in 0 .. 5 |-> IF i < Len(seq) THEN seq[i + 1] ELSE 0]

\* The chains of the escape grammar.
PauseChain == << \hE1, \h1D, \h45, \hE1, \h9D, \hC5 >>
PrintScreenPressChain == << \hE0, \h2A, \hE0, \h37 >>
PrintScreenReleaseChain == << \hE0, \hB7, \hE0, \hAA >>

\* n times Ok(None), then, when key is not None, Ok(key)
Pending(n, key) ==
    [i \in 1 .. n |-> Ok(None)] \o (IF key = None THEN << >> ELSE << Ok(key) >>)

\* The values a complete chain returns, cut to its first k calls.
Expected(chain, key, k) ==
    SubSeq(Pending(Len(chain) - 1, key), 1, k)

BufferEmpty == reader.history_scan_codes = EmptyHistory

(***************************************************************************)
(* C1: whenever input_scan_code returns Err the six history slots are     *)
(* zero afterwards, and from then on the Reader returns, call by call,    *)
(* what a Reader constructed by Reader::new at the time of the error      *)
(* returns for the same bytes, and holds the same buffer.                  *)
(***************************************************************************)
C1_ErrorLeavesNoState ==
    /\ (last_call = "input_scan_code" /\ ~ res.ok) => BufferEmpty
    /\ fresh_reader # << >> => fresh_reader[1] = reader
    /\ fresh_res # << >> => fresh_res[1] = res

\* a key decoded from a chain fed after an error, with the fresh Reader fed too
C1_Witness ==
    /\ fresh_res # << >>
    /\ fed = PrintScreenPressChain
    /\ res = Ok(Some(Key_new("PrintScreen", Pressed)))

(***************************************************************************)
(* C2: the history buffer is all zero or holds, in its first slots, one   *)
(* of (E0), (E0,2A), (E0,B7), (E0,2A,E0), (E0,B7,E0), (E1), (E1,1D),     *)
(* (E1,1D,45), (E1,1D,45,E1), (E1,1D,45,E1,9D), the other slots zero.    *)
(***************************************************************************)
RecognizedPrefixes ==
    { << \hE0 >>, << \hE0, \h2A >>, << \hE0, \hB7 >>,
      << \hE0, \h2A, \hE0 >>, << \hE0, \hB7, \hE0 >>,
      << \hE1 >>, << \hE1, \h1D >>, << \hE1, \h1D, \h45 >>,
      << \hE1, \h1D, \h45, \hE1 >>, << \hE1, \h1D, \h45, \hE1, \h9D >> }

C2_BufferIsRecognizedPrefix ==
    \/ BufferEmpty
    \/ \E p \in RecognizedPrefixes : reader.history_scan_codes = Pad(p)

C2_Witness ==
    reader.history_scan_codes = Pad(<< \hE0, \hB7, \hE0 >>)

(***************************************************************************)
(* C3: after a call of input_scan_code that returned Ok(Some(key)) the    *)
(* buffer is all zero; the buffer is non-empty only after a call of       *)
(* input_scan_code that returned Ok(None).                                 *)
(***************************************************************************)
C3_KeyClearsBuffer ==
    /\ (last_call = "input_scan_code" /\ res.ok /\ res.val # None) => BufferEmpty
    /\ ~ BufferEmpty => (last_call = "input_scan_code" /\ res = Ok(None))

C3_Witness ==
    /\ last_call = "input_scan_code"
    /\ fed = PrintScreenReleaseChain
    /\ res.val = Some(Key_new("PrintScreen", Released))
    /\ BufferEmpty

(***************************************************************************)
(* C4: the bytes E1,1D,45,E1,9D,C5 fed from an empty buffer return        *)
(* Ok(None) five times and then Ok(Some(Pause, Pressed, not keypad)); the *)
(* buffer is empty afterwards and the Print Screen release chain fed next *)
(* returns Ok(None) three times and then PrintScreen/Released.            *)
(***************************************************************************)
C4_PauseChain ==
    \A k \in 1 .. 6 :
        fed = SubSeq(PauseChain, 1, k) =>
            /\ emitted = Expected(PauseChain, Some(Key_new("Pause", Pressed)), k)
            /\ k = 6 =>
                /\ BufferEmpty
                /\ feed(reader, PrintScreenReleaseChain).results =
                       Pending(3, Some(Key_new("PrintScreen", Released)))

C4_Witness ==
    /\ fed = PauseChain
    /\ res = Ok(Some(Key_new("Pause", Pressed)))
    /\ BufferEmpty

(***************************************************************************)
(* C5: E0,2A,E0,37 fed from an empty buffer returns Ok(None) three times  *)
(* and then PrintScreen/Pressed; E0,B7,E0,AA returns Ok(None) three times *)
(* and then PrintScreen/Released.                                          *)
(***************************************************************************)
C5_PrintScreenChains ==
    \A k \in 1 .. 4 :
        /\ fed = SubSeq(PrintScreenPressChain, 1, k) =>
               emitted = Expected(PrintScreenPressChain,
                                  Some(Key_new("PrintScreen", Pressed)), k)
        /\ fed = SubSeq(PrintScreenReleaseChain, 1, k) =>
               emitted = Expected(PrintScreenReleaseChain,
                                  Some(Key_new("PrintScreen", Released)), k)

C5_Witness ==
    /\ fed = PrintScreenReleaseChain
    /\ Len(emitted) = 4
    /\ emitted[4] = Ok(Some(Key_new("PrintScreen", Released)))

(***************************************************************************)
(* C6: a code c in 0x01..0x58 fed to an empty buffer returns Ok; when it  *)
(* returns a key k, k is Pressed and c + 0x80 fed next returns k with the *)
(* state Released (same ScanType, same keypad flag); when it returns no   *)
(* key, c + 0x80 returns no key either.  0x57/0x58 (F11/F12) included.    *)
(***************************************************************************)
C6_PressReleaseSymmetry ==
    (last_call = "input_scan_code" /\ Len(fed) = 1 /\ fed[1] \in \h01 .. \h58) =>
        \E rel \in {input_scan_code(reader, fed[1] + \h80).res} :
            /\ res.ok
            /\ rel.ok
            /\ res.val = None => rel.val = None
            /\ res.val # None =>
                /\ res.val[1].state = Pressed
                /\ rel.val = Some([res.val[1] EXCEPT !.state = Released])

C6_Witness ==
    /\ last_call = "input_scan_code"
    /\ fed = << \h57 >>
    /\ res = Ok(Some(Key_new("F11", Pressed)))
    /\ input_scan_code(reader, \hD7).res = Ok(Some(Key_new("F11", Released)))

(***************************************************************************)
(* C7: when E0,c with c in 0x10..0x6D returns a key k, E0,(c + 0x80) fed  *)
(* next returns k with the state Released; and when E0,b with b in        *)
(* 0x90..0xED returns a key, E0,(b - 0x80) returns a key too.             *)
(***************************************************************************)
C7_MediaPressReleaseSymmetry ==
    (last_call = "input_scan_code" /\ Len(fed) = 2 /\ fed[1] = \hE0
        /\ res.ok /\ res.val # None) =>
        /\ fed[2] \in \h10 .. \h6D =>
               feed(reader, << \hE0, fed[2] + \h80 >>).results =
                   << Ok(None), Ok(Some([res.val[1] EXCEPT !.state = Released])) >>
        /\ fed[2] \in \h90 .. \hED =>
               \E press \in {feed(reader, << \hE0, fed[2] - \h80 >>).results} :
                   /\ press[2].ok
                   /\ press[2].val # None

C7_Witness ==
    /\ last_call = "input_scan_code"
    /\ fed = << \hE0, \h68 >>
    /\ res = Ok(Some(Key_new("WWWStop", Pressed)))
    /\ feed(reader, << \hE0, \hE8 >>).results[2] =
           Ok(Some(Key_new("WWWStop", Released)))

(***************************************************************************)
(* C8: E0 then E0 fed from an empty buffer returns Ok(None) twice and     *)
(* leaves the buffer empty, and every single-byte code fed next returns   *)
(* what the single-byte table gives for it.                                *)
(***************************************************************************)
C8_DoubleE0 ==
    fed = << \hE0, \hE0 >> =>
        /\ emitted = << Ok(None), Ok(None) >>
        /\ BufferEmpty
        /\ \A c \in \h00 .. \hD8 :
               input_scan_code(reader, c) =
                   Ret(reader, Ok(map_simple_scan_code_s1(c)))

C8_Witness ==
    /\ fed = << \hE0, \hE0 >>
    /\ res = Ok(None)
    /\ BufferEmpty
    /\ input_scan_code(reader, \h22).res = Ok(Some(Key_new("CharG", Pressed)))

(***************************************************************************)
(* C9: a byte fed to an empty buffer never returns Err; a byte above 0xD8 *)
(* other than E0/E1, and a byte at or below 0xD8 that is no key, returns  *)
(* Ok(None) and leaves the buffer empty, and 0x22 fed next returns        *)
(* CharG/Pressed.                                                          *)
(***************************************************************************)
C9_EmptyBufferNeverErr ==
    (last_call = "input_scan_code" /\ Len(fed) = 1) =>
        /\ res.ok
        /\ (fed[1] > \hD8 /\ fed[1] \notin {\hE0, \hE1}) => res = Ok(None)
        /\ (fed[1] \notin {\hE0, \hE1} /\ res.val = None) =>
               /\ BufferEmpty
               /\ input_scan_code(reader, \h22) =
                      Ret(reader, Ok(Some(Key_new("CharG", Pressed))))

C9_Witness ==
    /\ last_call = "input_scan_code"
    /\ fed = << \hDE >>
    /\ res = Ok(None)
    /\ BufferEmpty

(***************************************************************************)
(* C10: a Reader in Set2 or Set3 returns, call by call, what a Reader in  *)
(* Set1 returns for the same bytes, and holds the same history buffer.    *)
(***************************************************************************)
C10_AllModesDecodeAsSet1 ==
    /\ set1_reader.mode = "Set1"
    /\ set1_reader.history_scan_codes = reader.history_scan_codes
    /\ set1_res = res

C10_Witness ==
    /\ reader.mode = "Set2"
    /\ last_call = "input_scan_code"
    /\ fed = << \hE0, \h1C >>
    /\ res = Ok(Some(Key_new_keypad("Enter", Pressed)))

(***************************************************************************)
(* C11: switch_scan_mode(m), whatever the buffer held, leaves the six     *)
(* slots zero and the mode equal to m, so that the next byte starts a     *)
(* sequence: 0x45 fed next returns NumLock/Pressed, also when the call    *)
(* found (E1,1D) pending.                                                  *)
(***************************************************************************)
C11_SwitchClearsBuffer ==
    switched # << >> =>
        /\ last_call = "switch_scan_mode"
        /\ reader.mode = switched[1].mode
        /\ BufferEmpty
        /\ input_scan_code(reader, \h45) =
               Ret(reader, Ok(Some(Key_new("NumLock", Pressed))))

C11_Witness ==
    /\ switched # << >>
    /\ switched[1].before = Pad(<< \hE1, \h1D >>)
    /\ switched[1].mode = "Set3"
    /\ reader = Reader_new("Set3")

(***************************************************************************)
(* Helpers of the properties of the Keyboard and of the layout.           *)
(***************************************************************************)

\* The field of KeyModifierState that belongs to a modifier key.
ModifierField ==
       "LeftShift" :> "left_shift" @@ "RightShift" :> "right_shift"
    @@ "LeftCtrl" :> "left_ctrl" @@ "RightCtrl" :> "right_ctrl"
    @@ "LeftAlt" :> "left_alt" @@ "RightAlt" :> "right_alt"
    @@ "LeftGUI" :> "left_gui" @@ "RightGUI" :> "right_gui"
    @@ "CapsLock" :> "caps_lock" @@ "NumLock" :> "num_lock"
    @@ "ScrollLock" :> "scroll_lock"

\* The last byte made the Reader return key.
Decoded(key) == kb_calls = 1 /\ kb_scanned = Ok(Some(key))

\* The last byte made the Reader return a key.
DecodedAKey == kb_calls = 1 /\ kb_scanned.ok /\ kb_scanned.val # None

ShiftHeld == "LeftShift" \in held \/ "RightShift" \in held

KbBufferEmpty == keyboard.reader.history_scan_codes = EmptyHistory

(***************************************************************************)
(* C12: each of the eight booleans of shift, ctrl, alt and GUI is true    *)
(* exactly when the last event the Reader returned for its own key was    *)
(* Pressed; it is false when that event was Released or there was none.   *)
(***************************************************************************)
C12_MomentaryModifiers ==
    \A st \in MomentaryModifiers :
        keyboard.modifiers[ModifierField[st]] = (st \in held)

\* the right shift was released while the left one is held
C12_Witness ==
    /\ Decoded(Key_new("RightShift", Released))
    /\ held = {"LeftShift", "RightGUI"}
    /\ keyboard.modifiers.left_shift
    /\ ~ keyboard.modifiers.right_shift

(***************************************************************************)
(* C13: caps_lock, num_lock and scroll_lock are true exactly when the     *)
(* Reader has returned an odd number of Pressed events of their key, and  *)
(* a byte that makes the Reader return a Released event of a lock key     *)
(* changes no boolean.                                                     *)
(***************************************************************************)
C13_LocksToggleOnPress ==
    /\ [](\A st \in LockModifiers :
            keyboard.modifiers[ModifierField[st]] = (st \in toggled))
    /\ [][(/\ kb_calls' = 1
           /\ kb_scanned'.ok
           /\ kb_scanned'.val # None
           /\ kb_scanned'.val[1].scan_type \in LockModifiers
           /\ kb_scanned'.val[1].state = Released)
          => keyboard'.modifiers = keyboard.modifiers]_vars

\* NumLock is on after its key was pressed and released
C13_Witness ==
    /\ Decoded(Key_new("NumLock", Released))
    /\ toggled = {"NumLock"}
    /\ keyboard.modifiers.num_lock
    /\ ~ keyboard.modifiers.caps_lock

(***************************************************************************)
(* C14: a byte that makes the Reader return a key which is none of the    *)
(* eleven modifier keys changes no boolean, and try_raw_input_byte        *)
(* returns Ok(Some(key)) with that key.                                    *)
(***************************************************************************)
C14_OtherKeysChangeNothing ==
    [][(/\ kb_calls' = 1
        /\ kb_scanned'.ok
        /\ kb_scanned'.val # None
        /\ kb_scanned'.val[1].scan_type \notin MomentaryModifiers \cup LockModifiers)
       => /\ keyboard'.modifiers = keyboard.modifiers
          /\ kb_res' = Ok(Some(kb_scanned'.val[1]))]_vars

C14_Witness ==
    /\ Decoded(Key_new_keypad("SymbolAsterisk", Pressed))
    /\ kb_res = Ok(Some(Key_new_keypad("SymbolAsterisk", Pressed)))
    /\ keyboard.modifiers.left_shift
    /\ keyboard.modifiers.scroll_lock

(***************************************************************************)
(* C15: input_byte returns None when the Reader returned Err or Ok(None); *)
(* when the Reader returned Ok(Some(key)) it returns what key_into_char   *)
(* gives for key and the modifiers as they are after the call.            *)
(***************************************************************************)
C15_InputByteResult ==
    kb_calls = 1 =>
        IF kb_scanned.ok /\ kb_scanned.val # None
        THEN kb_char = key_into_char(keyboard.modifiers, kb_scanned.val[1])
        ELSE kb_char = None

\* an error of the Reader, seen by try_raw_input_byte and by no one above it
C15_Witness ==
    /\ kb_calls = 1
    /\ ~ kb_scanned.ok
    /\ kb_res = kb_scanned
    /\ kb_key = None
    /\ kb_char = None
    /\ ShiftHeld

(***************************************************************************)
(* C16: with no shift held, the letter code 0x1E gives "A" after one      *)
(* CapsLock press, also after the release of CapsLock, and "a" after the  *)
(* second press; a byte decoded as CapsLock gives no character.           *)
(***************************************************************************)
C16_CapsLockToggle ==
    /\ (DecodedAKey /\ kb_scanned.val[1].scan_type = "CapsLock") => kb_char = None
    /\ (Decoded(Key_new("CharA", Pressed)) /\ ~ ShiftHeld) =>
           kb_char = IF caps_presses % 2 = 1 THEN Some("A") ELSE Some("a")

C16_Witness ==
    /\ Decoded(Key_new("CharA", Pressed))
    /\ held = {}
    /\ caps_presses = 2
    /\ kb_char = Some("a")

LetterPressCodes == (\h10 .. \h19) \cup (\h1E .. \h26) \cup (\h2C .. \h32)

\* the letters of the three rows of letter keys, by scan code
LetterOfCode ==
    [c \in LetterPressCodes |->
        IF c <= \h19
        THEN << "q", "w", "e", "r", "t", "y", "u", "i", "o", "p" >>[c - \h0F]
        ELSE IF c <= \h26
        THEN << "a", "s", "d", "f", "g", "h", "j", "k", "l" >>[c - \h1D]
        ELSE << "z", "x", "c", "v", "b", "n", "m" >>[c - \h2B]]

(***************************************************************************)
(* C17: with caps lock off, the letter code 0x1E gives "A" when a shift   *)
(* key is held (its last event was Pressed), whichever, and "a" when      *)
(* none is; so does every other letter code fed to an empty buffer.       *)
(***************************************************************************)
C17_ShiftGivesUpperCase ==
    "CapsLock" \notin toggled =>
        /\ Decoded(Key_new("CharA", Pressed)) =>
               kb_char = IF ShiftHeld THEN Some("A") ELSE Some("a")
        /\ KbBufferEmpty =>
               \A c \in LetterPressCodes :
                   input_byte(keyboard, c).ret =
                       IF ShiftHeld
                       THEN Some(to_ascii_uppercase(LetterOfCode[c]))
                       ELSE Some(LetterOfCode[c])

C17_Witness ==
    /\ Decoded(Key_new("CharA", Pressed))
    /\ toggled = {}
    /\ held = {"LeftShift"}
    /\ kb_char = Some("A")

(***************************************************************************)
(* C18: for a letter key caps lock inverts what shift gives: lower case   *)
(* with caps lock and shift, upper case with caps lock and no shift (and  *)
(* upper case with shift alone, lower case with neither); for a digit, a  *)
(* symbol, Space or Tab the result with caps lock on is the result with   *)
(* caps lock off.                                                          *)
(***************************************************************************)
C18_CapsInvertsLettersOnly ==
    lay_char # << >> =>
        \E lower \in {ascii_lowercase[IF is_letter(lay_key.scan_type)
                                      THEN ScanIndex(lay_key.scan_type)
                                               - ScanIndex("CharA") + 1
                                      ELSE 1]} :
            IF is_letter(lay_key.scan_type)
            THEN lay_char[1] =
                     IF lay_modifiers.caps_lock = shift_down(lay_modifiers)
                     THEN Some(lower)
                     ELSE Some(to_ascii_uppercase(lower))
            ELSE lay_char[1] =
                     key_into_char([lay_modifiers EXCEPT
                                        !.caps_lock = ~ lay_modifiers.caps_lock],
                                   lay_key)

C18_Witness ==
    /\ lay_key = Key_new("CharQ", Pressed)
    /\ lay_modifiers.caps_lock
    /\ lay_modifiers.right_shift
    /\ lay_char = << Some("q") >>

KeypadDigitCodes == (\h47 .. \h49) \cup (\h4B .. \h4D) \cup (\h4F .. \h52)

\* the symbols above the digits 1, 2, ..., 9, 0 (codes 0x02 .. 0x0B)
ShiftedDigitRow == << "!", "@", "#", "$", "%", "^", "&", "*", "(", ")" >>

(***************************************************************************)
(* C19: while a shift key is held, a keypad digit code (0x47-0x49,        *)
(* 0x4B-0x4D, 0x4F-0x52) fed to an empty buffer gives no character and a  *)
(* digit code of the main block (0x02-0x0B) gives its shifted symbol;     *)
(* 0x08 and 0x47 are both Num7 and differ in the keypad flag only.        *)
(***************************************************************************)
C19_ShiftedKeypadDigits ==
    ShiftHeld =>
        /\ Decoded(Key_new_keypad("Num7", Pressed)) => kb_char = None
        /\ Decoded(Key_new("Num7", Pressed)) => kb_char = Some("&")
        /\ KbBufferEmpty =>
               /\ \A c \in KeypadDigitCodes : input_byte(keyboard, c).ret = None
               /\ \A c \in \h02 .. \h0B :
                      input_byte(keyboard, c).ret = Some(ShiftedDigitRow[c - 1])

C19_Witness ==
    /\ Decoded(Key_new_keypad("Num7", Pressed))
    /\ held = {"RightShift"}
    /\ kb_char = None
    /\ input_byte(keyboard, \h08).ret = Some("&")

is_symbol(scan_type) ==
    /\ ScanIndex(scan_type) >= ScanIndex("SymbolPlus")
    /\ ScanIndex(scan_type) <= ScanIndex("SymbolAsterisk")

(***************************************************************************)
(* C20: for a key whose ScanType is not a digit, a letter, a symbol,      *)
(* Space or Tab, key_into_char returns None under every modifier state.   *)
(***************************************************************************)
C20_OtherKeysGiveNoChar ==
    (/\ lay_char # << >>
     /\ ~ is_num(lay_key.scan_type)
     /\ ~ is_letter(lay_key.scan_type)
     /\ ~ is_symbol(lay_key.scan_type)
     /\ lay_key.scan_type \notin {"Space", "Tab"}) => lay_char[1] = None

C20_Witness ==
    /\ lay_key = Key_new_keypad("Enter", Pressed)
    /\ lay_modifiers.left_shift
    /\ lay_modifiers.caps_lock
    /\ lay_char = << None >>

(***************************************************************************)
(* C21: for each of Insert, Delete, Home, End, PageUp and PageDown there  *)
(* is a byte c such that 0xE0, c fed to an empty buffer gives that key    *)
(* Pressed and 0xE0, c + 0x80 gives it Released.                          *)
(***************************************************************************)
C21_NavigationKeysDecoded ==
    BufferEmpty =>
        \A scan_type \in {"Insert", "Delete", "Home", "End", "PageUp", "PageDown"} :
            \E c \in 0 .. 127 :
                /\ feed(reader, << \hE0, c >>).results
                       = << Ok(None), Ok(Some(Key_new(scan_type, Pressed))) >>
                /\ feed(reader, << \hE0, c + \h80 >>).results
                       = << Ok(None), Ok(Some(Key_new(scan_type, Released))) >>

(***************************************************************************)
(* C23: in no reachable state are all six slots of the history buffer     *)
(* non-zero; the bytes in a non-empty buffer are the bytes fed since it   *)
(* was empty, none of them 0x00; and input_scan_code never returns        *)
(* "Scan code buffer full.".                                              *)
(***************************************************************************)
C23_BufferNeverFull ==
    /\ \E i \in 0 .. 5 : reader.history_scan_codes[i] = 0
    /\ first_free(reader) < 6
    /\ ~ BufferEmpty =>
           /\ Len(fed) <= 6
           /\ reader.history_scan_codes = Pad(fed)
           /\ \A i \in 1 .. Len(fed) : fed[i] # 0
    /\ res.err # "Scan code buffer full."

\* five bytes of Pause are stored, one slot is left
C23_Witness ==
    /\ fed = << \hE1, \h1D, \h45, \hE1, \h9D >>
    /\ reader.history_scan_codes = Pad(fed)
    /\ first_free(reader) = 5
    /\ res = Ok(None)

(***************************************************************************)
(* C24: input_scan_code returns Err exactly when the buffer and the byte  *)
(* are one of: (E1) and not 0x1D; (E0,2A) or (E0,B7) and not 0xE0;        *)
(* (E1,1D) and not 0x45; (E0,2A,E0) or (E0,B7,E0) and neither 0x37 nor    *)
(* 0xAA; (E1,1D,45) and not 0xE1; (E1,1D,45,E1) and not 0x9D;             *)
(* (E1,1D,45,E1,9D) and not 0xC5.  After a lone 0xE0 no byte is an error. *)
(***************************************************************************)
ErrCase(history, byte) ==
    \/ history = Pad(<< \hE1 >>) /\ byte # \h1D
    \/ history \in {Pad(<< \hE0, \h2A >>), Pad(<< \hE0, \hB7 >>)} /\ byte # \hE0
    \/ history = Pad(<< \hE1, \h1D >>) /\ byte # \h45
    \/ /\ history \in {Pad(<< \hE0, \h2A, \hE0 >>), Pad(<< \hE0, \hB7, \hE0 >>)}
       /\ byte \notin {\h37, \hAA}
    \/ history = Pad(<< \hE1, \h1D, \h45 >>) /\ byte # \hE1
    \/ history = Pad(<< \hE1, \h1D, \h45, \hE1 >>) /\ byte # \h9D
    \/ history = Pad(<< \hE1, \h1D, \h45, \hE1, \h9D >>) /\ byte # \hC5

C24_ErrExactly ==
    [][last_call' = "input_scan_code" =>
           /\ (~ res'.ok) = ErrCase(reader.history_scan_codes, fed'[Len(fed')])
           /\ reader.history_scan_codes = Pad(<< \hE0 >>) => res'.ok]_vars

\* an error in the middle of the Print Screen release chain
C24_Witness ==
    /\ last_call = "input_scan_code"
    /\ fed = << \hE0, \hB7, \hE0, \h37 + 1 >>
    /\ ~ res.ok
    /\ BufferEmpty

(***************************************************************************)
(* C28: the Reader never returns a key whose ScanType is Unknown; a byte  *)
(* outside the single-byte table fed to an empty buffer, and a byte       *)
(* outside the media table fed after 0xE0, give Ok(None).                 *)
(***************************************************************************)
UnmappedSimple == ({0} \cup (\h59 .. \h80) \cup (\hD9 .. \hFF)) \ {\hE0, \hE1}

UnmappedMedia == (0 .. \h0F) \cup (\h6E .. \h8F) \cup (\hEE .. \hFF)

C28_NeverUnknown ==
    /\ (res.ok /\ res.val # None) => res.val[1].scan_type # "Unknown"
    /\ (last_call = "input_scan_code" /\ Len(fed) = 1 /\ fed[1] \in UnmappedSimple)
           => res = Ok(None) /\ BufferEmpty
    /\ (/\ last_call = "input_scan_code"
        /\ Len(fed) = 2
        /\ fed[1] = \hE0
        /\ fed[2] \in UnmappedMedia) => res = Ok(None) /\ BufferEmpty

C28_Witness ==
    /\ last_call = "input_scan_code"
    /\ fed = << \hE0, \hFF >>
    /\ res = Ok(None)
    /\ BufferEmpty

(***************************************************************************)
(* C29: no two distinct codes of 0x01 .. 0x58, each fed to an empty       *)
(* buffer, give the same key (same ScanType and same keypad flag).        *)
(***************************************************************************)
C29_PressCodesInjective ==
    BufferEmpty =>
        \A c1, c2 \in \h01 .. \h58 :
            \E k1 \in {input_scan_code(reader, c1).res.val} :
            \E k2 \in {input_scan_code(reader, c2).res.val} :
                (c1 # c2 /\ k1 # None /\ k2 # None) =>
                    \/ k1[1].scan_type # k2[1].scan_type
                    \/ k1[1].keypad # k2[1].keypad

(***************************************************************************)
(* C30: at most five calls of input_scan_code in a row leave the history  *)
(* buffer non-empty, each of them returning Ok(None); the sixth at the    *)
(* latest leaves it empty.                                                 *)
(***************************************************************************)
C30_BoundedPending ==
    (last_call = "input_scan_code" /\ ~ BufferEmpty) =>
        /\ Len(fed) <= 5
        /\ \A i \in 1 .. Len(emitted) : emitted[i] = Ok(None)

\* five calls in a row have left the buffer non-empty
C30_Witness ==
    /\ last_call = "input_scan_code"
    /\ Len(fed) = 5
    /\ ~ BufferEmpty
    /\ emitted = << Ok(None), Ok(None), Ok(None), Ok(None), Ok(None) >>

(***************************************************************************)
(* C22: every value current_state has returned since the last byte is the *)
(* modifier state of the Keyboard, so two calls in a row return equal     *)
(* values; and a call leaves the Keyboard, its modifiers and the history  *)
(* buffer of its Reader, as it was.                                        *)
(***************************************************************************)
C22_CurrentStateIsACopy ==
    /\ [](\A i \in 1 .. Len(snapshots) : snapshots[i] = keyboard.modifiers)
    /\ [](\A i, j \in 1 .. Len(snapshots) : snapshots[i] = snapshots[j])
    /\ [][Len(snapshots') > Len(snapshots) =>
              /\ keyboard'.modifiers = keyboard.modifiers
              /\ keyboard'.reader.history_scan_codes
                     = keyboard.reader.history_scan_codes]_vars

\* two calls while a shift is held, caps lock is on and 0xE0 is pending
C22_Witness ==
    /\ Len(snapshots) = 2
    /\ snapshots[1] = snapshots[2]
    /\ snapshots[2] = [KeyModifierState_new EXCEPT !.right_shift = TRUE,
                                                    !.caps_lock = TRUE]
    /\ keyboard.reader.history_scan_codes = Pad(<< \hE0 >>)

(***************************************************************************)
(* C25: a byte for which the Reader returns no key (Ok(None), the byte    *)
(* being stored, ignored or unmapped, or Err) leaves all eleven booleans  *)
(* as they were.                                                           *)
(***************************************************************************)
C25_NoKeyNoChange ==
    [][(kb_calls' = 1 /\ kb_scanned'.val = None)
           => keyboard'.modifiers = keyboard.modifiers]_vars

\* an error of the Reader while left ctrl is held and NumLock is on
C25_Witness ==
    /\ kb_calls = 1
    /\ ~ kb_scanned.ok
    /\ held = {"LeftCtrl"}
    /\ toggled = {"NumLock"}
    /\ keyboard.modifiers = [KeyModifierState_new EXCEPT !.left_ctrl = TRUE,
                                                          !.num_lock = TRUE]

(***************************************************************************)
(* C26: the six bytes of Pause and the four bytes of a Print Screen press *)
(* or release, fed to a Keyboard whose buffer is empty, leave all eleven  *)
(* booleans as they were before the first of them.                        *)
(***************************************************************************)
C26_ChainsChangeNoModifier ==
    KbBufferEmpty =>
        \A chain \in {PauseChain, PrintScreenPressChain, PrintScreenReleaseChain} :
            \E after \in {kb_feed(keyboard, chain)} :
                /\ after.modifiers = keyboard.modifiers
                /\ after.reader.history_scan_codes = EmptyHistory

\* Pause was fed while right shift was held: neither left ctrl nor NumLock
\* has changed
C26_Witness ==
    /\ Decoded(Key_new("Pause", Pressed))
    /\ held = {"RightShift"}
    /\ toggled = {}
    /\ keyboard.modifiers = [KeyModifierState_new EXCEPT !.right_shift = TRUE]

\* The codes of 0x01 .. 0x58 whose key is a digit, a letter, a symbol, Space
\* or Tab.
CharPressCodes ==
    {c \in \h01 .. \h58 :
        \E k \in {map_simple_scan_code_s1(c)} :
            /\ k # None
            /\ \/ is_num(k[1].scan_type)
               \/ is_letter(k[1].scan_type)
               \/ is_symbol(k[1].scan_type)
               \/ k[1].scan_type \in {"Space", "Tab"}}

(***************************************************************************)
(* C27: input_byte gives for the release code of a character key the      *)
(* character it gives for its press code under the same modifiers: 0x9E   *)
(* gives what 0x1E gives, and so for every code c of a character key and  *)
(* c + 0x80, and for the keypad slash 0xE0, 0x35 and 0xE0, 0xB5.          *)
(***************************************************************************)
C27_ReleaseGivesTheCharToo ==
    /\ Decoded(Key_new("CharA", Released)) =>
           /\ kb_char # None
           /\ kb_char = input_byte(keyboard, \h1E).ret
    /\ KbBufferEmpty =>
           /\ \A c \in CharPressCodes :
                  input_byte(keyboard, c).ret = input_byte(keyboard, c + \h80).ret
           /\ \E e0 \in {input_byte(keyboard, \hE0).keyboard} :
                  /\ input_byte(e0, \h35).ret # None
                  /\ input_byte(e0, \h35).ret = input_byte(e0, \hB5).ret

C27_Witness ==
    /\ Decoded(Key_new("CharA", Released))
    /\ kb_char = Some("a")
    /\ input_byte(keyboard, \h1E).ret = Some("a")

====
